---- MODULE Spec2Model ----
(***************************************************************************)
(* Breathing-LED demo for the STM32F407 (register version): the main loop  *)
(* of main.c, the LED driver LED.c and the SysTick busy-wait delays of     *)
(* Delay.c, as one state machine.                                          *)
(*                                                                         *)
(* 32-bit unsigned values (uint32_t) are pairs <<hi, lo>> of 16-bit halves *)
(* so that wrap-around modulo 2^32 is computed exactly.  Registers that    *)
(* the code manipulates bit by bit are sets of the indices of their set    *)
(* bits.                                                                   *)
(***************************************************************************)
EXTENDS Integers, Sequences, FiniteSets, TLC

(* ------------------------------------------------------------------ *)
(* Program constants                                                   *)
(* ------------------------------------------------------------------ *)
PWM_CYCLE == 500
BRIGHTNESS_MAX == 255
UPDATE_EVERY == 15
STEP == 1
SystemCoreClock == 168000000
SYSTICK_MAX == 16777215          \* 0xFFFFFF, the 24-bit counter maximum
HALF == 2^16

(* ------------------------------------------------------------------ *)
(* Bounds of the model                                                 *)
(* ------------------------------------------------------------------ *)
MaxIter == 8000                  \* the iteration counter saturates here
MaxMs == 3                       \* largest argument given to Delay_ms
MaxS == 2                        \* largest argument given to Delay_s

(* ------------------------------------------------------------------ *)
(* uint32_t arithmetic on <<hi, lo>>                                   *)
(* ------------------------------------------------------------------ *)
Min(a, b) == IF a <= b THEN a ELSE b

\* the uint32_t holding the int n (conversion of a negative int wraps)
U32(n) ==
    IF n >= 0 THEN <<n \div HALF, n % HALF>>
    ELSE LET m == (-n) - 1 IN <<(HALF - 1) - (m \div HALF), (HALF - 1) - (m % HALF)>>

\* m * x in uint32_t, for a multiplier 0 <= m < 2^15
U32Mul(m, x) ==
    LET lo == m * x[2]
        hi == m * x[1] + (lo \div HALF)
    IN  <<hi % HALF, lo % HALF>>

\* x - 1 in uint32_t (0 wraps to 0xFFFFFFFF)
U32Dec(x) ==
    IF x[2] > 0 THEN <<x[1], x[2] - 1>>
    ELSE IF x[1] > 0 THEN <<x[1] - 1, HALF - 1>>
    ELSE <<HALF - 1, HALF - 1>>

\* a / b of C on ints, b > 0: truncation toward zero
CDiv(a, b) == IF a >= 0 THEN a \div b ELSE -((-a) \div b)

(* ------------------------------------------------------------------ *)
(* State                                                               *)
(* ------------------------------------------------------------------ *)
VARIABLES
    brightness, direction, counter,     \* statics of main
    on_time, off_time,                  \* locals of the loop body
    pc,                                 \* program point of main
    RCC_AHB1ENR, GPIOB,                 \* peripheral registers (bit sets)
    xus, us_pc, us_ret,                 \* Delay_us: argument, program point, caller
    LOAD, VAL, CTRL,                    \* SysTick registers
    xms, ms_pc, ms_ret,                 \* Delay_ms
    xs, s_pc,                           \* Delay_s
    api_pc, api_op, api_arg,            \* a client calling the delay interface
    iter, updated, led1_act, led1_last, \* history of the main loop
    on1_calls, off1_calls,
    on2_called, off2_called, us_sum,
    b_start, d_start,                   \* brightness, direction at the top
    us_since_on1, on1_period, us_total, \* microseconds requested of Delay_us
    us_calls, ms_calls, us_args, ms_args \* history of the delay calls

mainVars == <<brightness, direction, counter, on_time, off_time, pc>>
gpioVars == <<RCC_AHB1ENR, GPIOB>>
usVars == <<xus, us_pc, us_ret>>
tickVars == <<LOAD, VAL, CTRL>>
msVars == <<xms, ms_pc, ms_ret>>
sVars == <<xs, s_pc>>
apiVars == <<api_pc, api_op, api_arg>>
loopHist == <<iter, updated, led1_act, led1_last, on1_calls, off1_calls,
              on2_called, off2_called, us_sum, b_start, d_start,
              us_since_on1, on1_period, us_total>>
callHist == <<us_calls, ms_calls, us_args, ms_args>>
vars == <<mainVars, gpioVars, usVars, tickVars, msVars, sVars, apiVars,
          loopHist, callHist>>

(* ------------------------------------------------------------------ *)
(* LED.c                                                               *)
(* ------------------------------------------------------------------ *)
\* a write of the word w to GPIOx_BSRR: bits 0..15 set, bits 16..31 reset
\* the ODR bit (set wins when both are written)
BSRRWrite(odr, w) ==
    (odr \ {b \in 0..15 : (b + 16) \in w}) \cup {b \in 0..15 : b \in w}

LED_InitNoLevels(g) ==
    [g EXCEPT !.MODER = (((@ \ {4, 5}) \cup {4}) \ {16, 17}) \cup {16},
              !.OTYPER = @ \ {2, 8},
              !.PUPDR = @ \ {4, 5, 16, 17},
              !.OSPEEDR = @ \cup {4, 5, 16, 17}]

LED_Init(g) ==
    LET m1 == (g.MODER \ {4, 5}) \cup {4}
        m2 == (m1 \ {16, 17}) \cup {16}
        ot == (g.OTYPER \ {2}) \ {8}
        pu == (g.PUPDR \ {4, 5}) \ {16, 17}
        sp == (g.OSPEEDR \cup {4, 5}) \cup {16, 17}
        od == BSRRWrite(g.ODR \ {2}, {8})
    IN  [MODER |-> m2, OTYPER |-> ot, PUPDR |-> pu, OSPEEDR |-> sp, ODR |-> od]

LED_On_1(g) == [g EXCEPT !.ODR = BSRRWrite(@, {8 + 16})]
LED_Off_1(g) == [g EXCEPT !.ODR = BSRRWrite(@, {8})]
LED_On_2Assign(g) == [g EXCEPT !.ODR = {2}]
LED_On_2(g) == [g EXCEPT !.ODR = @ \cup {2}]
LED_Off_2(g) == [g EXCEPT !.ODR = @ \ {2}]

(* ------------------------------------------------------------------ *)
(* Delay.c: Delay_us and the SysTick counter                           *)
(* ------------------------------------------------------------------ *)
DelayTicksClamp16(x) ==
    LET ticks == U32Mul(SystemCoreClock \div 1000000, x)
    IN  IF ticks[1] > 0 THEN 65535 ELSE ticks[2]

\* uint32_t ticks = SystemCoreClock / 1000000 * xus;
\* if(ticks > 0xFFFFFF) ticks = 0xFFFFFF;      (the result fits 24 bits)
DelayTicks(x) ==
    LET ticks == U32Mul(SystemCoreClock \div 1000000, x)
    IN  IF ticks[1] > 255 THEN SYSTICK_MAX ELSE ticks[1] * HALF + ticks[2]

\* entry of Delay_us(x) from the caller `ret`
CallDelayUs(x, ret) ==
    /\ us_pc = "idle"
    /\ xus' = x
    /\ us_pc' = "load"
    /\ us_ret' = ret

\* lines 49-57: compute ticks, LOAD = ticks, VAL = 0 (a write to VAL clears
\* the counter and COUNTFLAG), CTRL = 5 (ENABLE | CLKSOURCE)
DelayUs_Load ==
    /\ us_pc = "load"
    /\ LOAD' = DelayTicks(xus)
    /\ VAL' = 0
    /\ CTRL' = {0, 2}
    /\ us_pc' = "wait"
    /\ UNCHANGED <<xus, us_ret, mainVars, gpioVars, msVars, sVars, apiVars,
                   loopHist, callHist>>

\* line 60: one evaluation of while(!(SysTick->CTRL & 0x00010000)); the read
\* of CTRL clears COUNTFLAG
DelayUs_Poll ==
    /\ us_pc = "wait"
    /\ IF 16 \in CTRL
         THEN /\ us_pc' = "stop"
              /\ CTRL' = CTRL \ {16}
         ELSE UNCHANGED <<us_pc, CTRL>>
    /\ UNCHANGED <<xus, us_ret, LOAD, VAL, mainVars, gpioVars, msVars, sVars,
                   apiVars, loopHist, callHist>>

\* the caller's program point after Delay_us returns
ReturnFromUs ==
    /\ pc' = CASE us_ret = "on" -> "off"
               [] us_ret = "off" -> "update"
               [] OTHER -> pc
    /\ ms_pc' = IF us_ret = "ms" THEN "loop" ELSE ms_pc
    /\ api_pc' = IF us_ret = "api" THEN "returned" ELSE api_pc

\* line 63: CTRL = 4 (counter off; COUNTFLAG is read-only), then return
DelayUs_Stop ==
    /\ us_pc = "stop"
    /\ CTRL' = {2} \cup (CTRL \cap {16})
    /\ us_pc' = "idle"
    /\ ReturnFromUs
    /\ UNCHANGED <<xus, us_ret, LOAD, VAL, brightness, direction, counter,
                   on_time, off_time, gpioVars, xms, ms_ret, sVars, api_op,
                   api_arg, loopHist, callHist>>

\* The SysTick hardware, while enabled: at zero the counter reloads from
\* LOAD on the next clock; otherwise it counts down to zero, and the
\* transition 1 -> 0 sets COUNTFLAG.  One step is the run of clock edges up
\* to the next reload or zero.
SysTickCount ==
    /\ 0 \in CTRL
    /\ IF VAL = 0
         THEN /\ VAL' = LOAD
              /\ CTRL' = CTRL
         ELSE /\ VAL' = 0
              /\ CTRL' = CTRL \cup {16}
    /\ UNCHANGED <<LOAD, usVars, mainVars, gpioVars, msVars, sVars, apiVars,
                   loopHist, callHist>>

DelayUs == DelayUs_Load \/ DelayUs_Poll \/ DelayUs_Stop

(* ------------------------------------------------------------------ *)
(* main.c                                                              *)
(* ------------------------------------------------------------------ *)
\* line 47: LED_Init()
Main_Init ==
    /\ pc = "start"
    /\ RCC_AHB1ENR' = RCC_AHB1ENR \cup {1}
    /\ GPIOB' = LED_Init(GPIOB)
    /\ pc' = "pwm"
    /\ UNCHANGED <<brightness, direction, counter, on_time, off_time, usVars,
                   tickVars, msVars, sVars, apiVars, loopHist, callHist>>

OnTimeDiv256(b) == CDiv(b * PWM_CYCLE, 256)
OnTime(b) == CDiv(b * PWM_CYCLE, BRIGHTNESS_MAX)
OffTime(b) == PWM_CYCLE - OnTime(b)

\* lines 52-53: top of an iteration, the duty split
Main_Split ==
    /\ pc = "pwm"
    /\ on_time' = OnTime(brightness)
    /\ off_time' = OffTime(brightness)
    /\ pc' = "on"
    /\ iter' = Min(iter + 1, MaxIter)      \* history stops at MaxIter
    /\ updated' = FALSE
    /\ led1_act' = "none"
    /\ on2_called' = FALSE
    /\ off2_called' = FALSE
    /\ us_sum' = 0
    /\ b_start' = brightness
    /\ d_start' = direction
    /\ UNCHANGED <<brightness, direction, counter, gpioVars, usVars, tickVars,
                   msVars, sVars, apiVars, led1_last, on1_calls, off1_calls,
                   us_since_on1, on1_period, us_total, callHist>>

OffPhaseDueAlways(t) == t >= 0
\* lines 56 and 60: a phase of zero duration is skipped
OnPhaseDue(t) == t > 0
OffPhaseDue(t) == t > 0

\* the microseconds requested of Delay_us: since the last LED_On_1 (-1
\* before the first), and in total over the first MaxIter iterations
Requested(t) ==
    /\ us_since_on1' = IF us_since_on1 >= 0 THEN us_since_on1 + t ELSE us_since_on1
    /\ us_total' = IF iter < MaxIter THEN us_total + t ELSE us_total

\* lines 56-59
Main_On ==
    /\ pc = "on"
    /\ IF OnPhaseDue(on_time)
         THEN /\ GPIOB' = LED_On_2(GPIOB)
              /\ CallDelayUs(U32(on_time), "on")
              /\ pc' = "on_delay"
              /\ on2_called' = TRUE
              /\ us_sum' = us_sum + on_time
              /\ Requested(on_time)
         ELSE /\ pc' = "off"
              /\ UNCHANGED <<GPIOB, usVars, on2_called, us_sum, us_since_on1,
                             us_total>>
    /\ UNCHANGED <<brightness, direction, counter, on_time, off_time,
                   RCC_AHB1ENR, tickVars, msVars, sVars, apiVars, iter, updated,
                   led1_act, led1_last, on1_calls, off1_calls, off2_called,
                   b_start, d_start, on1_period, callHist>>

\* lines 60-63
Main_Off ==
    /\ pc = "off"
    /\ IF OffPhaseDue(off_time)
         THEN /\ GPIOB' = LED_Off_2(GPIOB)
              /\ CallDelayUs(U32(off_time), "off")
              /\ pc' = "off_delay"
              /\ off2_called' = TRUE
              /\ us_sum' = us_sum + off_time
              /\ Requested(off_time)
         ELSE /\ pc' = "update"
              /\ UNCHANGED <<GPIOB, usVars, off2_called, us_sum, us_since_on1,
                             us_total>>
    /\ UNCHANGED <<brightness, direction, counter, on_time, off_time,
                   RCC_AHB1ENR, tickVars, msVars, sVars, apiVars, iter, updated,
                   led1_act, led1_last, on1_calls, off1_calls, on2_called,
                   b_start, d_start, on1_period, callHist>>

CounterDueStrict(c) == c > UPDATE_EVERY
\* line 66: if(++counter >= UPDATE_EVERY)
CounterDue(c) == c >= UPDATE_EVERY

StepBrightnessTwice(b, d) == b + 2 * d * STEP
StepBrightnessReversed(b, d) == b - d * STEP
\* line 70: brightness += direction * STEP
StepBrightness(b, d) == b + d * STEP

\* lines 66-70
Main_Update ==
    /\ pc = "update"
    /\ IF CounterDue(counter + 1)
         THEN /\ counter' = 0
              /\ brightness' = StepBrightness(brightness, direction)
              /\ updated' = TRUE
              /\ pc' = "boundary"
         ELSE /\ counter' = counter + 1
              /\ pc' = "pwm"
              /\ UNCHANGED <<brightness, updated>>
    /\ UNCHANGED <<direction, on_time, off_time, gpioVars, usVars, tickVars,
                   msVars, sVars, apiVars, iter, led1_act, led1_last, on1_calls,
                   off1_calls, on2_called, off2_called, us_sum, b_start,
                   d_start, us_since_on1, on1_period, us_total, callHist>>

AtMaxEarly(b) == b >= 254
AtMaxStrict(b) == b > 255
\* lines 73 and 77: the two boundary tests
AtMax(b) == b >= 255
AtMin(b) == b <= 0

ClampMaxWrap(b) == b - 255
\* lines 75 and 79: the values brightness is clamped to
ClampMax(b) == 255
ClampMin(b) == 0

\* lines 73-81
Main_Boundary ==
    /\ pc = "boundary"
    /\ IF AtMax(brightness)
         THEN /\ direction' = -1
              /\ brightness' = ClampMax(brightness)
              /\ GPIOB' = LED_On_1(GPIOB)
              /\ led1_act' = "On"
              /\ led1_last' = "On"
              /\ on1_calls' = IF iter < MaxIter THEN on1_calls + 1 ELSE on1_calls
              /\ on1_period' = us_since_on1
              /\ us_since_on1' = 0
              /\ UNCHANGED off1_calls
         ELSE IF AtMin(brightness)
         THEN /\ direction' = 1
              /\ brightness' = ClampMin(brightness)
              /\ GPIOB' = LED_Off_1(GPIOB)
              /\ led1_act' = "Off"
              /\ led1_last' = "Off"
              /\ off1_calls' = IF iter < MaxIter THEN off1_calls + 1 ELSE off1_calls
              /\ UNCHANGED <<on1_calls, on1_period, us_since_on1>>
         ELSE UNCHANGED <<direction, brightness, GPIOB, led1_act, led1_last,
                          on1_calls, off1_calls, on1_period, us_since_on1>>
    /\ pc' = "pwm"
    /\ UNCHANGED <<counter, on_time, off_time, RCC_AHB1ENR, usVars, tickVars,
                   msVars, sVars, apiVars, iter, updated, on2_called,
                   off2_called, us_sum, b_start, d_start, us_total, callHist>>

Main == Main_Init \/ Main_Split \/ Main_On \/ Main_Off \/ Main_Update
            \/ Main_Boundary

(* ------------------------------------------------------------------ *)
(* The program: main after reset                                       *)
(* ------------------------------------------------------------------ *)
\* registers after reset (GPIOB, SysTick disabled) and no call in progress
InitRegs ==
    /\ RCC_AHB1ENR = {20}
    /\ GPIOB = [MODER |-> {7, 9}, OTYPER |-> {}, PUPDR |-> {8},
                OSPEEDR |-> {6, 7}, ODR |-> {}]
    /\ LOAD = 0 /\ VAL = 0 /\ CTRL = {}
    /\ xus = U32(0) /\ us_pc = "idle" /\ us_ret = "none"
    /\ xms = U32(0) /\ ms_pc = "idle" /\ ms_ret = "none"
    /\ xs = U32(0) /\ s_pc = "idle"
    /\ us_calls = 0 /\ ms_calls = 0 /\ us_args = {} /\ ms_args = {}

InitStatics ==
    /\ brightness = 0 /\ direction = 1 /\ counter = 0
    /\ on_time = 0 /\ off_time = 0
    /\ iter = 0 /\ updated = FALSE /\ led1_act = "none" /\ led1_last = "none"
    /\ on1_calls = 0 /\ off1_calls = 0
    /\ on2_called = FALSE /\ off2_called = FALSE /\ us_sum = 0
    /\ b_start = 0 /\ d_start = 1
    /\ us_since_on1 = -1 /\ on1_period = -1 /\ us_total = 0

Init ==
    /\ InitRegs
    /\ InitStatics
    /\ pc = "start"
    /\ api_pc = "none" /\ api_op = "none" /\ api_arg = U32(0)

Next == Main \/ DelayUs \/ SysTickCount

Spec == Init /\ [][Next]_vars

\* the processor keeps executing main (nothing preempts or stops it short
\* of a reset) and the SysTick clock keeps running
FairSpec == Spec /\ WF_vars(Main \/ DelayUs) /\ WF_vars(SysTickCount)

(* ------------------------------------------------------------------ *)
(* Delay.c: Delay_ms and Delay_s                                       *)
(* ------------------------------------------------------------------ *)
\* entry of Delay_ms(x) from the caller `ret`
CallDelayMs(x, ret) ==
    /\ ms_pc = "idle"
    /\ xms' = x
    /\ ms_pc' = "loop"
    /\ ms_ret' = ret

\* the argument Delay_ms gives Delay_us (line 84)
MsChunk == 1000
\* the argument Delay_s gives Delay_ms (line 106)
SChunk == 1000

MsLoopTestPre(x) == U32Dec(x) # U32(0)
\* lines 82 and 104: while(x--) tests the value before the decrement
MsLoopTest(x) == x # U32(0)
SLoopTest(x) == x # U32(0)

\* lines 82-85: one evaluation of while(xms--): the test reads xms, then xms
\* is decremented; the body calls Delay_us(1000)
DelayMs_Loop ==
    /\ ms_pc = "loop"
    /\ xms' = U32Dec(xms)
    /\ IF MsLoopTest(xms)
         THEN /\ CallDelayUs(U32(MsChunk), "ms")
              /\ ms_pc' = "call"
              /\ us_calls' = us_calls + 1
              /\ us_args' = us_args \cup {MsChunk}
              /\ UNCHANGED <<s_pc, api_pc>>
         ELSE /\ ms_pc' = "idle"
              /\ s_pc' = IF ms_ret = "s" THEN "loop" ELSE s_pc
              /\ api_pc' = IF ms_ret = "api" THEN "returned" ELSE api_pc
              /\ UNCHANGED <<usVars, us_calls, us_args>>
    /\ UNCHANGED <<ms_ret, xs, api_op, api_arg, mainVars, gpioVars, tickVars,
                   loopHist, ms_calls, ms_args>>

\* lines 104-107: one evaluation of while(xs--); the body calls Delay_ms(1000)
DelayS_Loop ==
    /\ s_pc = "loop"
    /\ xs' = U32Dec(xs)
    /\ IF SLoopTest(xs)
         THEN /\ CallDelayMs(U32(SChunk), "s")
              /\ s_pc' = "call"
              /\ ms_calls' = ms_calls + 1
              /\ ms_args' = ms_args \cup {SChunk}
              /\ UNCHANGED api_pc
         ELSE /\ s_pc' = "idle"
              /\ api_pc' = "returned"
              /\ UNCHANGED <<msVars, ms_calls, ms_args>>
    /\ UNCHANGED <<api_op, api_arg, mainVars, gpioVars, usVars, tickVars,
                   loopHist, us_calls, us_args>>

(* ------------------------------------------------------------------ *)
(* A client of the delay interface (Delay.h)                           *)
(* ------------------------------------------------------------------ *)
\* arguments given to Delay_us: zero, small values, both sides of the
\* 24-bit limit at 168 ticks per microsecond (99864 * 168 = 16777152), ten
\* seconds, both sides of the first 32-bit wrap of the product
\* (25565282 * 168 = 2^32 + 80), and UINT32_MAX
UsInputs ==
    {U32(0), U32(1), U32(2), U32(500), U32(1000), U32(99864), U32(99865),
     U32(10000000), U32(25565281), U32(25565282), U32(26000000),
     <<HALF - 1, HALF - 1>>}

ClearCallHist ==
    /\ us_calls' = 0 /\ ms_calls' = 0 /\ us_args' = {} /\ ms_args' = {}

Api_Delay_us ==
    /\ api_pc \in {"ready", "returned"}
    /\ \E x \in UsInputs :
         /\ CallDelayUs(x, "api")
         /\ api_arg' = x
    /\ api_op' = "us"
    /\ api_pc' = "called"
    /\ ClearCallHist
    /\ UNCHANGED <<mainVars, gpioVars, tickVars, msVars, sVars, loopHist>>

Api_Delay_ms ==
    /\ api_pc \in {"ready", "returned"}
    /\ \E n \in 0..MaxMs :
         /\ CallDelayMs(U32(n), "api")
         /\ api_arg' = U32(n)
    /\ api_op' = "ms"
    /\ api_pc' = "called"
    /\ ClearCallHist
    /\ UNCHANGED <<mainVars, gpioVars, tickVars, usVars, sVars, loopHist>>

Api_Delay_s ==
    /\ api_pc \in {"ready", "returned"}
    /\ \E n \in 0..MaxS :
         /\ s_pc = "idle"
         /\ xs' = U32(n)
         /\ s_pc' = "loop"
         /\ api_arg' = U32(n)
    /\ api_op' = "s"
    /\ api_pc' = "called"
    /\ ClearCallHist
    /\ UNCHANGED <<mainVars, gpioVars, tickVars, usVars, msVars, loopHist>>

InitDelay ==
    /\ InitRegs
    /\ InitStatics
    /\ pc = "start"
    /\ api_pc = "ready" /\ api_op = "none" /\ api_arg = U32(0)

Cpu == DelayUs \/ DelayMs_Loop \/ DelayS_Loop

NextDelay == Api_Delay_us \/ Api_Delay_ms \/ Api_Delay_s \/ Cpu \/ SysTickCount

SpecDelay == InitDelay /\ [][NextDelay]_vars

\* the processor keeps executing the call in progress and the SysTick clock
\* keeps running; the client is free to stop calling
FairSpecDelay == SpecDelay /\ WF_vars(Cpu) /\ WF_vars(SysTickCount)

(* ------------------------------------------------------------------ *)
(* Clients of the LED driver (LED.h): main, or any caller that         *)
(* initialises the LEDs and then switches them in any order            *)
(* ------------------------------------------------------------------ *)
\* GPIOB before the first LED_Init: the reset configuration, an all-zero
\* one and one with every bit of PB2 and PB8 set, with any output levels on
\* PB0, PB2, PB8 and PB15
LedStartStates ==
    {[MODER |-> c[1], OTYPER |-> c[2], PUPDR |-> c[3], OSPEEDR |-> c[4],
      ODR |-> o] :
        c \in {<<{7, 9}, {}, {8}, {6, 7}>>,
               <<{}, {}, {}, {}>>,
               <<{4, 5, 7, 9, 16, 17}, {2, 8}, {4, 5, 8, 16, 17}, {}>>},
        o \in SUBSET {0, 2, 8, 15}}

Led_Init ==
    /\ api_pc \in {"led_fresh", "led_ready"}
    /\ RCC_AHB1ENR' = RCC_AHB1ENR \cup {1}
    /\ GPIOB' = LED_Init(GPIOB)
    /\ api_op' = "Init"
    /\ api_pc' = "led_ready"
    /\ UNCHANGED <<api_arg, mainVars, usVars, tickVars, msVars, sVars,
                   loopHist, callHist>>

Led_On_1 ==
    /\ api_pc = "led_ready"
    /\ GPIOB' = LED_On_1(GPIOB)
    /\ api_op' = "On_1"
    /\ UNCHANGED <<api_pc, api_arg, RCC_AHB1ENR, mainVars, usVars, tickVars,
                   msVars, sVars, loopHist, callHist>>

Led_Off_1 ==
    /\ api_pc = "led_ready"
    /\ GPIOB' = LED_Off_1(GPIOB)
    /\ api_op' = "Off_1"
    /\ UNCHANGED <<api_pc, api_arg, RCC_AHB1ENR, mainVars, usVars, tickVars,
                   msVars, sVars, loopHist, callHist>>

Led_On_2 ==
    /\ api_pc = "led_ready"
    /\ GPIOB' = LED_On_2(GPIOB)
    /\ api_op' = "On_2"
    /\ UNCHANGED <<api_pc, api_arg, RCC_AHB1ENR, mainVars, usVars, tickVars,
                   msVars, sVars, loopHist, callHist>>

Led_Off_2 ==
    /\ api_pc = "led_ready"
    /\ GPIOB' = LED_Off_2(GPIOB)
    /\ api_op' = "Off_2"
    /\ UNCHANGED <<api_pc, api_arg, RCC_AHB1ENR, mainVars, usVars, tickVars,
                   msVars, sVars, loopHist, callHist>>

\* a caller of the driver other than main (pc = "led": main is not running)
InitLedClient ==
    /\ RCC_AHB1ENR = {20}
    /\ GPIOB \in LedStartStates
    /\ LOAD = 0 /\ VAL = 0 /\ CTRL = {}
    /\ xus = U32(0) /\ us_pc = "idle" /\ us_ret = "none"
    /\ xms = U32(0) /\ ms_pc = "idle" /\ ms_ret = "none"
    /\ xs = U32(0) /\ s_pc = "idle"
    /\ us_calls = 0 /\ ms_calls = 0 /\ us_args = {} /\ ms_args = {}
    /\ InitStatics
    /\ pc = "led"
    /\ api_pc = "led_fresh" /\ api_op = "none" /\ api_arg = U32(0)

InitLED == Init \/ InitLedClient

NextLED == Led_Init \/ Led_On_1 \/ Led_Off_1 \/ Led_On_2 \/ Led_Off_2 \/ Next

SpecLED == InitLED /\ [][NextLED]_vars

(* ------------------------------------------------------------------ *)
(* Properties of the main loop (under Spec)                            *)
(* ------------------------------------------------------------------ *)

\* C1: at every program point of main, also between the brightness update
\* and the boundary clamp, 0 <= brightness <= 255.
BrightnessInRange == brightness >= 0 /\ brightness <= 255

\* the update has just brought brightness to the upper bound; the clamp has
\* not yet run
BrightnessAtTopBeforeClamp ==
    pc = "boundary" /\ brightness = 255 /\ direction = 1

\* C2: direction changes in a step exactly when the step is the boundary
\* check of an iteration whose update made brightness 0 or 255; the flip is
\* to -1 at 255 and to +1 at 0.
DirectionFlipsExactlyAtBounds ==
    [][ /\ (direction' # direction) <=> (pc = "boundary" /\ brightness \in {0, 255})
        /\ (pc = "boundary" /\ brightness = 255) => (direction = 1 /\ direction' = -1)
        /\ (pc = "boundary" /\ brightness = 0) => (direction = -1 /\ direction' = 1)
      ]_vars

\* an iteration has touched the lower bound and flipped direction upward
FlippedAtBottom ==
    pc = "pwm" /\ updated /\ brightness = 0 /\ direction = 1 /\ led1_act = "Off"

\* C3: for every brightness b in 0..255 the duty split of an iteration is
\* on_time = floor(b * 500 / 255), on_time + off_time = 500, off_time >= 0.
DutySplitExact ==
    pc \in {"on", "on_delay", "off", "off_delay", "update"} =>
        /\ on_time * 255 <= brightness * 500
        /\ brightness * 500 < (on_time + 1) * 255
        /\ on_time + off_time = 500
        /\ off_time >= 0
        /\ on_time >= 0 /\ on_time <= 500

\* a split in mid-range where the division truncates (128 * 500 / 255 = 250.98)
DutySplitMidRange ==
    pc = "on" /\ brightness = 128 /\ on_time = 250 /\ off_time = 250

\* C4: brightness first equals 255 in the update of iteration 3825 = 15 * 255
\* and not earlier; that iteration ends with direction = -1 and LED_On_1
\* called; through iteration 3825 LED_On_1 is called exactly once and
\* LED_Off_1 never.
FirstPeakAtIteration3825 ==
    /\ brightness = 255 => (iter >= 3825 /\ (iter = 3825 => pc \in {"boundary", "pwm"}))
    /\ (iter = 3825 /\ pc = "pwm") =>
          /\ brightness = 255 /\ direction = -1
          /\ led1_act = "On" /\ on1_calls = 1 /\ off1_calls = 0
    /\ (iter < 3825 \/ (iter = 3825 /\ pc \notin {"pwm"})) =>
          (on1_calls = 0 /\ off1_calls = 0 /\ direction = 1)

\* iteration 3825 has ended at the first peak
FirstPeakReached ==
    iter = 3825 /\ pc = "pwm" /\ brightness = 255 /\ on1_calls = 1

\* C9: the main loop never calls Delay_us with 0: every argument is in
\* 1..500 and its tick count is loaded unclamped; an iteration with
\* brightness 0 runs neither LED_On_2 nor its delay, one with brightness 255
\* neither LED_Off_2 nor its delay; the arguments of an iteration sum to 500.
ZeroPhasesSkipped ==
    /\ us_pc # "idle" =>
          /\ xus[1] = 0 /\ xus[2] >= 1 /\ xus[2] <= 500
          /\ us_pc \in {"wait", "stop"} => LOAD = 168 * xus[2]
    /\ pc \in {"on", "on_delay", "off", "off_delay", "update"} =>
          /\ brightness = 0 => (~on2_called /\ pc # "on_delay")
          /\ brightness = 255 => (~off2_called /\ pc # "off_delay")
    /\ pc = "update" => us_sum = 500

\* a full-brightness iteration has run its on phase only
FullBrightnessIterationDone ==
    pc = "update" /\ brightness = 255 /\ on2_called /\ ~off2_called /\ us_sum = 500

\* C10: an iteration calls LED_On_1 iff its update brings brightness to 255
\* and LED_Off_1 iff it brings brightness to 0; the LED1 actions of a run
\* alternate On, Off, On, ... beginning with On.
Led1AtExtremaAlternating ==
    /\ [](pc = "pwm" /\ iter >= 1 =>
            /\ (led1_act = "On") <=> (updated /\ brightness = 255)
            /\ (led1_act = "Off") <=> (updated /\ brightness = 0))
    /\ [][ (led1_act' # "none" /\ led1_act = "none") =>
             /\ led1_act' # led1_last
             /\ led1_last = "none" => led1_act' = "On"
             /\ GPIOB'.ODR = IF led1_act' = "On" THEN GPIOB.ODR \ {8}
                                                ELSE GPIOB.ODR \cup {8}
         ]_vars

\* LED_Off_1 has been called at the first trough, after the LED_On_1 of the
\* first peak
Led1OffAfterOn ==
    pc = "pwm" /\ led1_act = "Off" /\ brightness = 0 /\ on1_calls = 1
        /\ off1_calls = 1

\* C11: over every iteration, if direction is +1 at its start then
\* brightness at its end is >= brightness at its start, and if direction is
\* -1 at its start then brightness at its end is <= brightness at its start.
MonotoneWithDirection ==
    (pc = "pwm" /\ iter >= 1) =>
        /\ d_start = 1 => brightness >= b_start
        /\ d_start = -1 => brightness <= b_start
        /\ d_start \in {1, -1}

\* an iteration that started with direction -1 has stepped brightness down
SteppedDown ==
    pc = "pwm" /\ updated /\ d_start = -1 /\ b_start = 255 /\ brightness = 254

\* C12: LED1 blinks with a period of one second: the microseconds requested
\* of Delay_us between two consecutive LED_On_1 calls are 1,000,000.
Led1PeriodOneSecond ==
    on1_period >= 0 => on1_period = 1000000

\* C14: at the start of every iteration 0 <= counter < 15; counter is reset
\* to 0 exactly on every 15th iteration; on the other iterations brightness
\* and direction are unchanged and no LED1 action occurs; on each 15th
\* iteration brightness changes by exactly 1.
CounterGatesUpdate ==
    /\ counter >= 0 /\ counter < 15
    /\ (pc = "pwm" /\ iter >= 1) =>
          /\ iter < MaxIter => counter = iter % 15
          /\ updated <=> counter = 0
          /\ ~updated =>
                (brightness = b_start /\ direction = d_start /\ led1_act = "none")
          /\ updated =>
                (brightness - b_start = 1 \/ b_start - brightness = 1)
    /\ pc \in {"on", "on_delay", "off", "off_delay", "update"} =>
          (brightness = b_start /\ direction = d_start /\ led1_act = "none")

\* the 14th iteration after an update has ended with nothing changed
FourteenthIterationIdle ==
    pc = "pwm" /\ iter = 44 /\ counter = 14 /\ ~updated /\ brightness = 2

\* C15: the main loop never ends: iterations keep starting, brightness
\* reaches 255 infinitely often and 0 infinitely often; (brightness,
\* direction, counter) is back at (0, +1, 0) at the end of iteration 7650 and
\* at the end of no earlier iteration, and the 7650 iterations request
\* 3,825,000 us of Delay_us.
BreathingCycleForever ==
    /\ []<>(pc = "on")
    /\ []<>(brightness = 255)
    /\ []<>(brightness = 0)
    /\ []((pc = "pwm" /\ iter >= 1 /\ iter < 7650) =>
            ~(brightness = 0 /\ direction = 1 /\ counter = 0))
    /\ []((pc = "pwm" /\ iter = 7650) =>
            (brightness = 0 /\ direction = 1 /\ counter = 0
                /\ us_total = 3825000))

\* one full breathing cycle has ended in the initial state
CycleClosed ==
    pc = "pwm" /\ iter = 7650 /\ brightness = 0 /\ direction = 1 /\ counter = 0
        /\ us_total = 3825000 /\ on1_calls = 1 /\ off1_calls = 1

(* ------------------------------------------------------------------ *)
(* Properties of the delay functions (under SpecDelay, FairSpecDelay)  *)
(* ------------------------------------------------------------------ *)
\* the value of a uint32_t below 2^31
U32Val(x) == x[1] * HALF + x[2]

\* the tick count 168 * x of x microseconds exceeds 0xFFFFFF (computed
\* without wrap-around)
TicksExceed24Bits(x) ==
    (SystemCoreClock \div 1000000) * x[1]
        + (((SystemCoreClock \div 1000000) * x[2]) \div HALF) > 255

\* C5: whenever the tick count of the request exceeds 0xFFFFFF, Delay_us
\* writes exactly 0xFFFFFF to SysTick->LOAD.
DelayUsClampsOverRange ==
    (us_pc \in {"wait", "stop"} /\ TicksExceed24Bits(xus)) => LOAD = SYSTICK_MAX

\* C6: Delay_us(0) returns: the busy-wait of a call with argument 0 exits.
DelayUsZeroReturns ==
    [](us_pc = "load" /\ xus = U32(0) => <>(us_pc = "idle"))

\* C7: for every request d whose tick count 168 * d fits 24 bits, Delay_us
\* writes exactly 168 * d to SysTick->LOAD before starting the counter.
DelayUsLoadExact ==
    (us_pc \in {"wait", "stop"} /\ ~TicksExceed24Bits(xus)) =>
        LOAD = 168 * U32Val(xus)

\* the largest representable request has been loaded unclamped
LargestInRangeLoaded ==
    us_pc = "wait" /\ xus = U32(99864) /\ LOAD = 16777152 /\ 0 \in CTRL

\* C8: Delay_ms(n) calls Delay_us(1000) exactly n times and returns;
\* Delay_s(n) calls Delay_ms(1000) exactly n times, that is Delay_us(1000)
\* exactly 1000 * n times, and returns.
DelayMsSCallCounts ==
    /\ [] /\ us_args \subseteq {1000}
          /\ ms_args \subseteq {1000}
          /\ (api_op = "ms" /\ api_pc = "returned") =>
                (us_calls = U32Val(api_arg) /\ ms_calls = 0)
          /\ (api_op = "s" /\ api_pc = "returned") =>
                (ms_calls = U32Val(api_arg) /\ us_calls = 1000 * U32Val(api_arg))
          /\ (api_op = "ms" /\ api_pc = "called") => us_calls <= U32Val(api_arg)
          /\ (api_op = "s" /\ api_pc = "called") =>
                (ms_calls <= U32Val(api_arg) /\ us_calls <= 1000 * ms_calls)
    /\ [](api_op \in {"ms", "s"} /\ api_pc = "called" => <>(api_pc = "returned"))

\* Delay_s(1) has returned after 1000 calls of Delay_us
DelaySOneReturned ==
    api_op = "s" /\ api_arg = U32(1) /\ api_pc = "returned" /\ us_calls = 1000
        /\ ms_calls = 1

(* ------------------------------------------------------------------ *)
(* Properties of the LED driver (under SpecLED)                        *)
(* ------------------------------------------------------------------ *)
\* the output levels of PB2 and PB8 and their mode, type, pull and speed
PinState(g) ==
    <<g.ODR \cap {2, 8}, g.MODER \cap {4, 5, 16, 17}, g.OTYPER \cap {2, 8},
      g.PUPDR \cap {4, 5, 16, 17}, g.OSPEEDR \cap {4, 5, 16, 17}>>

\* C13: a further LED_Init, after LED_Init and any LED_On/LED_Off calls,
\* leaves the levels and the configuration of PB2 and PB8 unchanged.
ReInitKeepsPins ==
    [][(api_pc = "led_ready" /\ api_op' = "Init") =>
          PinState(GPIOB') = PinState(GPIOB)]_vars

====
